---- MODULE Spec2Model ----
(***************************************************************************)
(* ipa-sounds: Ipa::try_from(&str) (the fold over the characters of the    *)
(* input), Display for Ipa (the formatter) and TryFrom<String>.            *)
(*                                                                         *)
(* A char is its Unicode scalar value, a &str / Vec<char> is a sequence of  *)
(* them.  Positions are 0-based as in the source: At(s, k) is ipa[k].      *)
(* A Result is a record tagged "Ok" (field val) or "Err" (field err); a    *)
(* panic of the program (index out of range, usize underflow) is the value *)
(* Panic.                                                                  *)
(***************************************************************************)
EXTENDS Integers, Sequences, FiniteSets

VARIABLES ipa, i, acc, res, out, j, back, pc

vars == <<ipa, i, acc, res, out, j, back, pc>>

\* Longest input the model draws.
MaxLen == 4

\* 'ʲ', 'ː' and ' '
PAL == 690
LONG == 720
SPACE == 32

\* The characters inputs are drawn from: the consonants 'n' and 'j', the vowels
\* 'æ' and 'a', both diacritics, the space, and 'þ' and 'x', which are in no
\* table.
InputChars == {110, 106, 230, 97, PAL, LONG, SPACE, 254, 120}

Inputs == UNION {[1..n -> InputChars] : n \in 0..MaxLen}

----------------------------------------------------------------------------
\* Result values

Ok(v) == [tag |-> "Ok", val |-> v]
Err(e) == [tag |-> "Err", err |-> e]
Panic == [tag |-> "Panic"]
NotRun == [tag |-> "NotRun"]

PalatalizedVowel(c) == [kind |-> "PalatalizedVowel", ch |-> c]
NotYetImplemented(c) == [kind |-> "NotYetImplemented", ch |-> c]

\* Option<Sound>
Some(x) == [some |-> TRUE, x |-> x]
None == [some |-> FALSE]

\* enum Sound
Vowel(p, l) == [kind |-> "Vowel", phoneme |-> p, is_long |-> l]
Consonant(p, l, pal) ==
    [kind |-> "Consonant", phoneme |-> p, is_long |-> l, is_palatalized |-> pal]
Space == [kind |-> "Space"]

----------------------------------------------------------------------------
\* The match arms of try_from: character -> phoneme

ConsonantOf ==
    [c \in {110, 109, 106, 112} |->
        CASE c = 110 -> "VoicedAlveolarNasal"                 \* 'n'
          [] c = 109 -> "VoicedBilabialNasal"                 \* 'm'
          [] c = 106 -> "VoicedPalatalApproximant"            \* 'j'
          [] c = 112 -> "VoicelessBilabialPlosive"]           \* 'p'

VowelOf ==
    [c \in {117, 623, 649, 616, 121, 105, 248, 101,
            601, 650, 655, 618, 230, 593, 97, 652} |->
        CASE c = 117 -> "CloseBackRounded"                    \* 'u'
          [] c = 623 -> "CloseBackUnrounded"                  \* 'ɯ'
          [] c = 649 -> "CloseCentralRounded"                 \* 'ʉ'
          [] c = 616 -> "CloseCentralUnrounded"               \* 'ɨ'
          [] c = 121 -> "CloseFrontRounded"                   \* 'y'
          [] c = 105 -> "CloseFrontUnrounded"                 \* 'i'
          [] c = 248 -> "CloseMidFrontRounded"                \* 'ø'
          [] c = 101 -> "CloseMidFrontUnrounded"              \* 'e'
          [] c = 601 -> "MidCentral"                          \* 'ə'
          [] c = 650 -> "NearCloseNearBackRounded"            \* 'ʊ'
          [] c = 655 -> "NearCloseNearFrontRounded"           \* 'ʏ'
          [] c = 618 -> "NearCloseNearFrontUnrounded"         \* 'ɪ'
          [] c = 230 -> "NearOpenFrontUrounded"               \* 'æ'
          [] c = 593 -> "OpenBackUnrounded"                   \* 'ɑ'
          [] c = 97 -> "OpenFrontUnrounded"                   \* 'a'
          [] c = 652 -> "OpenMidBackUnrounded"]               \* 'ʌ'

\* The match arms of Display::fmt: phoneme -> character

VowelChar(p) ==
    CASE p = "CloseBackRounded" -> 117                        \* 'u'
      [] p = "CloseBackUnrounded" -> 623                      \* 'ɯ'
      [] p = "CloseCentralRounded" -> 649                     \* 'ʉ'
      [] p = "CloseCentralUnrounded" -> 616                   \* 'ɨ'
      [] p = "CloseFrontRounded" -> 121                       \* 'y'
      [] p = "CloseFrontUnrounded" -> 105                     \* 'i'
      [] p = "CloseMidFrontRounded" -> 248                    \* 'ø'
      [] p = "CloseMidFrontUnrounded" -> 101                  \* 'e'
      [] p = "MidCentral" -> 601                              \* 'ə'
      [] p = "NearCloseNearBackRounded" -> 650                \* 'ʊ'
      [] p = "NearCloseNearFrontRounded" -> 655               \* 'ʏ'
      [] p = "NearCloseNearFrontUnrounded" -> 618             \* 'ɪ'
      [] p = "NearOpenFrontUrounded" -> 230                   \* 'æ'
      [] p = "OpenBackUnrounded" -> 593                       \* 'ɑ'
      [] p = "OpenFrontUnrounded" -> 97                       \* 'a'
      [] p = "OpenMidBackUnrounded" -> 652                    \* 'ʌ'

ConsonantChar(p) ==
    CASE p = "VoicedAlveolarNasal" -> 110                     \* 'n'
      [] p = "VoicedBilabialNasal" -> 109                     \* 'm'
      [] p = "VoicedPalatalApproximant" -> 106                \* 'j'
      [] p = "VoicelessBilabialPlosive" -> 112                \* 'p'

----------------------------------------------------------------------------
\* try_from: the closure of the fold

\* ipa[k]
At(s, k) == s[k + 1]

\* i == ipa.len() - 1
IsLastPosition(s, k) == k = Len(s) - 1


\* Mutant: the second lookahead is taken whatever is_palatalized is.
UsesSecondLookahead_Always(s, k, is_palatalized) == k < Len(s) - 2

\* Mutant: the range test is off by one (ipa.len() - 1).
UsesSecondLookahead_OffByOne(s, k, is_palatalized) ==
    k < Len(s) - 1 /\ is_palatalized

\* i < ipa.len() - 2 && is_palatalized
UsesSecondLookahead(s, k, is_palatalized) == k < Len(s) - 2 /\ is_palatalized


\* Mutant: a 'ʲ' behind a 'ː' palatalizes too.
IsPalatalized_PastLong(s, k) ==
    IF IsLastPosition(s, k) THEN FALSE
    ELSE \/ At(s, k + 1) = PAL
         \/ At(s, k + 1) = LONG /\ k + 2 < Len(s) /\ At(s, k + 2) = PAL

\* let is_palatalized = ...
IsPalatalized(s, k) ==
    IF IsLastPosition(s, k) THEN FALSE ELSE At(s, k + 1) = PAL


\* Mutant: the length mark is looked for at i + 1 only, not behind a 'ʲ'.
IsLong_NoSkip(s, k, is_palatalized) ==
    IF IsLastPosition(s, k) THEN FALSE ELSE At(s, k + 1) = LONG

\* let is_long = ...
IsLong(s, k, is_palatalized) ==
    IF IsLastPosition(s, k) THEN FALSE
    ELSE IF UsesSecondLookahead(s, k, is_palatalized) THEN At(s, k + 2) = LONG
    ELSE At(s, k + 1) = LONG

\* The usize subtractions <<a, b>> (a - b) one run of the closure evaluates.
Subtractions(s, k) ==
    {<<Len(s), 1>>} \cup (IF IsLastPosition(s, k) THEN {} ELSE {<<Len(s), 2>>})

\* The positions of ipa one run of the closure indexes.
Reads(s, k) ==
    {k} \cup
    (IF IsLastPosition(s, k) THEN {}
     ELSE {k + 1} \cup
          (IF k + 1 < Len(s) /\ UsesSecondLookahead(s, k, At(s, k + 1) = PAL)
           THEN {k + 2} ELSE {}))

\* A usize subtraction that underflows or an index past the end panics.  (A
\* build without overflow checks wraps ipa.len() - 1 or ipa.len() - 2 to a
\* value no i equals or exceeds, and then indexes ipa past its end: it panics
\* too.)
ClosurePanics(s, k) ==
    \/ \E p \in Subtractions(s, k) : p[1] < p[2]
    \/ \E r \in Reads(s, k) : r >= Len(s)


\* Mutant: the vowel arms do not test is_palatalized.
Classify_VowelUnchecked(c, is_long, is_palatalized) ==
    IF c \in DOMAIN ConsonantOf
    THEN Ok(Some(Consonant(ConsonantOf[c], is_long, is_palatalized)))
    ELSE IF c \in DOMAIN VowelOf THEN Ok(Some(Vowel(VowelOf[c], is_long)))
    ELSE IF c = PAL THEN Ok(None)
    ELSE IF c = LONG THEN Ok(None)
    ELSE IF c = SPACE THEN Ok(Some(Space))
    ELSE Err(NotYetImplemented(c))

\* Mutant: the default arm skips the character as it skips a diacritic.
Classify_SkipUnknown(c, is_long, is_palatalized) ==
    IF c \in DOMAIN ConsonantOf
    THEN Ok(Some(Consonant(ConsonantOf[c], is_long, is_palatalized)))
    ELSE IF c \in DOMAIN VowelOf
    THEN IF is_palatalized THEN Err(PalatalizedVowel(c))
         ELSE Ok(Some(Vowel(VowelOf[c], is_long)))
    ELSE IF c = SPACE THEN Ok(Some(Space))
    ELSE Ok(None)

\* match ipa[i] { ... }
Classify(c, is_long, is_palatalized) ==
    IF c \in DOMAIN ConsonantOf
    THEN Ok(Some(Consonant(ConsonantOf[c], is_long, is_palatalized)))
    ELSE IF c \in DOMAIN VowelOf
    THEN IF is_palatalized THEN Err(PalatalizedVowel(c))
         ELSE Ok(Some(Vowel(VowelOf[c], is_long)))
    ELSE IF c = PAL THEN Ok(None)
    ELSE IF c = LONG THEN Ok(None)
    ELSE IF c = SPACE THEN Ok(Some(Space))
    ELSE Err(NotYetImplemented(c))


\* Mutant: unwrap_or_default() in place of unwrap_or(vec).
PushResult_Default(vec, r) ==
    IF r.tag = "Err" THEN r
    ELSE IF r.val.some THEN Ok(Append(vec, r.val.x))
    ELSE Ok(<<>>)

\* .map(|err| err.map(|to_push| (*vec).fpush(to_push)).unwrap_or(vec))
PushResult(vec, r) ==
    IF r.tag = "Err" THEN r
    ELSE IF r.val.some THEN Ok(Append(vec, r.val.x))
    ELSE Ok(vec)

\* The body of the closure |vec| { ... }
Closure(vec, s, k) ==
    IF ClosurePanics(s, k) THEN Panic
    ELSE LET is_palatalized == IsPalatalized(s, k)
             is_long == IsLong(s, k, is_palatalized)
         IN  PushResult(vec, Classify(At(s, k), is_long, is_palatalized))


\* Mutant: the closure runs after an error too, on an empty vector.
AndThen_NoShortCircuit(a, s, k) ==
    Closure(IF a.tag = "Ok" THEN a.val ELSE <<>>, s, k)

\* acc.and_then(|vec| ...)
AndThen(a, s, k) == IF a.tag = "Ok" THEN Closure(a.val, s, k) ELSE a


\* Mutant: ipa.len() - 1 is computed once, before the fold.
FoldInit_Hoisted(s) == IF Len(s) < 1 THEN Panic ELSE Ok(<<>>)

\* Ok(Vec::with_capacity(ipa.len()))
FoldInit(s) == Ok(<<>>)

RECURSIVE Fold(_, _, _)
Fold(a, s, k) == IF k >= Len(s) THEN a ELSE Fold(AndThen(a, s, k), s, k + 1)

\* Ipa::try_from(&str) as a whole
TryFrom(s) == Fold(FoldInit(s), s, 0)

\* impl TryFrom<String> for Ipa
TryFromString(s) == TryFrom(s)

----------------------------------------------------------------------------
\* Display for Ipa


\* Mutant: the length mark is written before the palatalization mark.
SoundStr_LongFirst(sound) ==
    IF sound.kind = "Vowel"
    THEN <<VowelChar(sound.phoneme)>> \o (IF sound.is_long THEN <<LONG>> ELSE <<>>)
    ELSE IF sound.kind = "Consonant"
    THEN <<ConsonantChar(sound.phoneme)>>
         \o (IF sound.is_long THEN <<LONG>> ELSE <<>>)
         \o (IF sound.is_palatalized THEN <<PAL>> ELSE <<>>)
    ELSE <<SPACE>>

\* The string written for one sound
SoundStr(sound) ==
    IF sound.kind = "Vowel"
    THEN <<VowelChar(sound.phoneme)>> \o (IF sound.is_long THEN <<LONG>> ELSE <<>>)
    ELSE IF sound.kind = "Consonant"
    THEN <<ConsonantChar(sound.phoneme)>>
         \o (IF sound.is_palatalized THEN <<PAL>> ELSE <<>>)
         \o (IF sound.is_long THEN <<LONG>> ELSE <<>>)
    ELSE <<SPACE>>

----------------------------------------------------------------------------
\* The program: parse the input, format the value, parse the text again.

Init ==
    /\ ipa \in Inputs
    /\ i = 0
    /\ acc = FoldInit(ipa)
    /\ res = NotRun
    /\ out = <<>>
    /\ j = 0
    /\ back = NotRun
    /\ pc = "scan"

\* One iteration of (0..ipa.len()).fold(...)
FoldStep ==
    /\ pc = "scan"
    /\ i < Len(ipa)
    /\ acc' = AndThen(acc, ipa, i)
    /\ i' = i + 1
    /\ UNCHANGED <<ipa, res, out, j, back, pc>>

\* The fold is over: .map(Ipa)
FoldEnd ==
    /\ pc = "scan"
    /\ i = Len(ipa)
    /\ res' = acc
    /\ pc' = "parsed"
    /\ UNCHANGED <<ipa, i, acc, out, j, back>>

\* One iteration of self.0.iter().try_for_each(...)
FmtStep ==
    /\ pc = "parsed"
    /\ res.tag = "Ok"
    /\ j < Len(res.val)
    /\ out' = out \o SoundStr(res.val[j + 1])
    /\ j' = j + 1
    /\ UNCHANGED <<ipa, i, acc, res, back, pc>>

FmtEnd ==
    /\ pc = "parsed"
    /\ res.tag = "Ok"
    /\ j = Len(res.val)
    /\ pc' = "formatted"
    /\ UNCHANGED <<ipa, i, acc, res, out, j, back>>

\* Ipa::try_from(format!("{}", t))
Reparse ==
    /\ pc = "formatted"
    /\ back' = TryFromString(out)
    /\ pc' = "done"
    /\ UNCHANGED <<ipa, i, acc, res, out, j>>

Next == FoldStep \/ FoldEnd \/ FmtStep \/ FmtEnd \/ Reparse

Spec == Init /\ [][Next]_vars

----------------------------------------------------------------------------
\* Vocabulary of the properties

IsConsonantChar(c) == c \in DOMAIN ConsonantOf
IsVowelChar(c) == c \in DOMAIN VowelOf
IsDiacritic(c) == c \in {PAL, LONG}
Unrecognized(c) == ~IsConsonantChar(c) /\ ~IsVowelChar(c) /\ ~IsDiacritic(c) /\ c # SPACE

\* Position k of s holds c.
Holds(s, k, c) == k < Len(s) /\ At(s, k) = c

\* The number of characters other than the diacritics in the first n of s.
BaseCount(s, n) == Cardinality({p \in 0..(n - 1) : ~IsDiacritic(At(s, p))})

\* The position of the m-th character of s that is not a diacritic (m >= 1).
BasePos(s, m) ==
    CHOOSE k \in 0..(Len(s) - 1) : ~IsDiacritic(At(s, k)) /\ BaseCount(s, k + 1) = m

\* A failing position: an unrecognized character, or a vowel before 'ʲ'.
Failing(s, k) ==
    \/ Unrecognized(At(s, k))
    \/ IsVowelChar(At(s, k)) /\ Holds(s, k + 1, PAL)

FailingPositions(s) == {k \in 0..(Len(s) - 1) : Failing(s, k)}

FirstFailing(s) ==
    CHOOSE k \in FailingPositions(s) : \A q \in FailingPositions(s) : k <= q

ErrorAt(s, k) ==
    IF Unrecognized(At(s, k)) THEN NotYetImplemented(At(s, k))
    ELSE PalatalizedVowel(At(s, k))

\* s is made of canonical groups only: a space; a vowel, then 'ː' or nothing;
\* a consonant, then 'ʲ' or nothing, then 'ː' or nothing.
RECURSIVE CanonicalFrom(_, _)
CanonicalFrom(s, k) ==
    IF k >= Len(s) THEN TRUE
    ELSE LET c == At(s, k)
             afterPal == IF Holds(s, k + 1, PAL) THEN k + 2 ELSE k + 1
         IN  IF c = SPACE THEN CanonicalFrom(s, k + 1)
             ELSE IF IsVowelChar(c)
             THEN CanonicalFrom(s, IF Holds(s, k + 1, LONG) THEN k + 2 ELSE k + 1)
             ELSE IF IsConsonantChar(c)
             THEN CanonicalFrom(s, IF Holds(s, afterPal, LONG)
                                   THEN afterPal + 1 ELSE afterPal)
             ELSE FALSE

IsCanonical(s) == CanonicalFrom(s, 0)

\* sound is the sound of the base character c, flags aside.
SoundFrom(sound, c) ==
    \/ c = SPACE /\ sound.kind = "Space"
    \/ IsConsonantChar(c) /\ sound.kind = "Consonant" /\ sound.phoneme = ConsonantOf[c]
    \/ IsVowelChar(c) /\ sound.kind = "Vowel" /\ sound.phoneme = VowelOf[c]

----------------------------------------------------------------------------
\* C1.  Round trip: when try_from(s) succeeds with t, try_from(format(t))
\* succeeds too and yields a value equal to t.
C1_RoundTrip == pc = "done" => back = res

\* A palatalized long consonant went round, from an input that is not its
\* own canonical text.
C1_Witness ==
    /\ pc = "done"
    /\ back = res
    /\ \E m \in 1..Len(res.val) :
          /\ res.val[m].kind = "Consonant"
          /\ res.val[m].is_palatalized
          /\ res.val[m].is_long
    /\ out # ipa

\* C2 as stated: every occurrence of a vowel v before 'ʲ' makes try_from fail
\* with exactly PalatalizedVowel(v), whatever precedes or follows it.
C2_AsStated ==
    pc # "scan" =>
        \A k \in 0..(Len(ipa) - 1) :
            IsVowelChar(At(ipa, k)) /\ Holds(ipa, k + 1, PAL)
                => res = Err(PalatalizedVowel(At(ipa, k)))

\* C2 amended: every occurrence of a vowel v before 'ʲ' makes try_from fail,
\* and with exactly PalatalizedVowel(v) when no failing position precedes the
\* occurrence.
C2_PalatalizedVowel ==
    pc # "scan" =>
        \A k \in 0..(Len(ipa) - 1) :
            IsVowelChar(At(ipa, k)) /\ Holds(ipa, k + 1, PAL)
                => /\ res.tag = "Err"
                   /\ (\A q \in 0..(k - 1) : ~Failing(ipa, q))
                          => res = Err(PalatalizedVowel(At(ipa, k)))

\* A vowel before 'ʲ' with characters before it and after the 'ʲ'.
C2_Witness ==
    /\ pc = "parsed"
    /\ \E k \in 1..(Len(ipa) - 3) :
          /\ IsVowelChar(At(ipa, k)) /\ Holds(ipa, k + 1, PAL)
          /\ \A q \in 0..(k - 1) : ~Failing(ipa, q)
          /\ res = Err(PalatalizedVowel(At(ipa, k)))

\* C3 as stated: an input that contains a character c outside the tables, the
\* diacritics and the space fails with NotYetImplemented(c).
C3_AsStated ==
    pc # "scan" =>
        \A k \in 0..(Len(ipa) - 1) :
            Unrecognized(At(ipa, k)) => res = Err(NotYetImplemented(At(ipa, k)))

\* C3 amended: an input that contains such a character c fails, and with
\* NotYetImplemented(c) when no failing position precedes that occurrence.
C3_NotYetImplemented ==
    pc # "scan" =>
        \A k \in 0..(Len(ipa) - 1) :
            Unrecognized(At(ipa, k))
                => /\ res.tag = "Err"
                   /\ (\A q \in 0..(k - 1) : ~Failing(ipa, q))
                          => res = Err(NotYetImplemented(At(ipa, k)))

\* An unrecognized character after sounds and before further characters.
C3_Witness ==
    /\ pc = "parsed"
    /\ \E k \in 1..(Len(ipa) - 2) :
          /\ Unrecognized(At(ipa, k))
          /\ \A q \in 0..(k - 1) : ~Failing(ipa, q)
          /\ res = Err(NotYetImplemented(At(ipa, k)))

\* C4.  First error wins: once the scan is past the smallest failing position
\* the accumulator is that position's error and stays it, and the result is
\* that error, not a value.
C4_FirstErrorWins ==
    FailingPositions(ipa) # {} =>
        LET m == FirstFailing(ipa)
        IN  /\ i > m => acc = Err(ErrorAt(ipa, m))
            /\ pc # "scan" => res = Err(ErrorAt(ipa, m))

\* Two failing positions with different errors, sounds scanned before both.
C4_Witness ==
    /\ pc = "parsed"
    /\ FailingPositions(ipa) # {}
    /\ FirstFailing(ipa) > 0
    /\ \E q \in FailingPositions(ipa) : ErrorAt(ipa, q) # ErrorAt(ipa, FirstFailing(ipa))
    /\ res = Err(ErrorAt(ipa, FirstFailing(ipa)))

\* C5.  An input made of canonical groups only parses, and formatting the
\* parsed value gives the input back.
C5_CanonicalReproduced ==
    IsCanonical(ipa) =>
        /\ pc # "scan" => res.tag = "Ok"
        /\ pc \in {"formatted", "done"} => out = ipa

\* A canonical input with a consonant followed by 'ʲ' and then 'ː'.
C5_Witness ==
    /\ pc = "formatted"
    /\ IsCanonical(ipa)
    /\ \E k \in 0..(Len(ipa) - 1) :
          IsConsonantChar(At(ipa, k)) /\ Holds(ipa, k + 1, PAL) /\ Holds(ipa, k + 2, LONG)
    /\ out = ipa

\* C6.  The sound of the consonant at position k is palatalized iff position
\* k + 1 exists and holds 'ʲ'.
C6_PalatalizedFlag ==
    acc.tag = "Ok" =>
        \A m \in 1..Len(acc.val) :
            LET k == BasePos(ipa, m)
            IN  IsConsonantChar(At(ipa, k))
                    => /\ acc.val[m].kind = "Consonant"
                       /\ acc.val[m].is_palatalized = Holds(ipa, k + 1, PAL)

\* A parsed consonant, 'ː', 'ʲ': not palatalized; and a consonant in last
\* position.
C6_Witness ==
    /\ pc = "parsed"
    /\ res.tag = "Ok"
    /\ Len(ipa) > 3
    /\ IsConsonantChar(At(ipa, 0)) /\ At(ipa, 1) = LONG /\ At(ipa, 2) = PAL
    /\ ~res.val[1].is_palatalized
    /\ IsConsonantChar(At(ipa, Len(ipa) - 1))

\* C7.  The sound of the vowel or consonant at position k is long iff k + 1
\* holds 'ʲ' and k + 2 holds 'ː', or k + 1 holds 'ː'.
C7_LongFlag ==
    acc.tag = "Ok" =>
        \A m \in 1..Len(acc.val) :
            LET k == BasePos(ipa, m)
            IN  IsConsonantChar(At(ipa, k)) \/ IsVowelChar(At(ipa, k))
                    => acc.val[m].is_long =
                          (\/ Holds(ipa, k + 1, PAL) /\ Holds(ipa, k + 2, LONG)
                           \/ Holds(ipa, k + 1, LONG))

\* A parsed consonant, 'ʲ', 'ː': long through the skipped 'ʲ'.
C7_Witness ==
    /\ pc = "parsed"
    /\ res.tag = "Ok"
    /\ Len(ipa) > 3
    /\ IsConsonantChar(At(ipa, 0)) /\ At(ipa, 1) = PAL /\ At(ipa, 2) = LONG
    /\ res.val[1].is_long
    /\ res.val[1].is_palatalized

\* C8.  The empty input parses to an Ipa of zero sounds, and an Ipa of zero
\* sounds formats to the empty string.
C8_EmptyInput ==
    /\ (ipa = <<>> /\ pc # "scan") => res = Ok(<<>>)
    /\ (pc \in {"formatted", "done"} /\ res = Ok(<<>>)) => out = <<>>

C8_Witness == pc = "done" /\ ipa = <<>> /\ res = Ok(<<>>) /\ out = <<>>

\* C9.  While the scan has not failed, there are as many accumulated sounds as
\* characters other than 'ʲ' and 'ː' in the prefix scanned, and the m-th sound
\* is the sound of the m-th such character.
C9_OneSoundPerBase ==
    acc.tag = "Ok" =>
        /\ Len(acc.val) = BaseCount(ipa, i)
        /\ \A m \in 1..Len(acc.val) : SoundFrom(acc.val[m], At(ipa, BasePos(ipa, m)))

\* A leading diacritic, sounds, and a diacritic after a space, all scanned.
C9_Witness ==
    /\ pc = "scan"
    /\ i = Len(ipa)
    /\ acc.tag = "Ok"
    /\ Len(acc.val) = 2
    /\ Len(ipa) = 4
    /\ IsDiacritic(At(ipa, 0))
    /\ At(ipa, 2) = SPACE
    /\ IsDiacritic(At(ipa, 3))

\* C10.  No run of the closure evaluates an underflowing subtraction or
\* indexes ipa past its end, and try_from ends in Ok or in one of the two
\* errors, never in a panic.
C10_InBounds ==
    /\ (pc = "scan" /\ i < Len(ipa) /\ acc.tag = "Ok") =>
          /\ \A p \in Subtractions(ipa, i) : p[1] >= p[2]
          /\ \A r \in Reads(ipa, i) : r < Len(ipa)
    /\ acc.tag \in {"Ok", "Err"}
    /\ pc # "scan" =>
          /\ res.tag \in {"Ok", "Err"}
          /\ res.tag = "Err" => res.err.kind \in {"PalatalizedVowel", "NotYetImplemented"}
    /\ pc = "done" => back.tag \in {"Ok", "Err"}

\* The step at the last but one position, whose next character is 'ʲ', ran.
C10_Witness ==
    /\ pc = "scan"
    /\ Len(ipa) = 2
    /\ i = 1
    /\ At(ipa, 1) = PAL
    /\ acc.tag = "Ok"
    /\ Len(acc.val) = 1

====
